---- MODULE Spec2Model ----
(***************************************************************************)
(* Model of the damn-differential integrators (src/src/ode, src/src/ode_sys)*)
(*                                                                         *)
(* Every number of the program is an f64.  The model keeps the IEEE-754    *)
(* behaviour of f64 (round to nearest, ties to even, gradual underflow,    *)
(* overflow to infinity, NaN) but at a reduced width: Prec significand     *)
(* bits instead of 53, Frac fractional bits and ERange binades above 1.0,  *)
(* so that 1.0 is the integer One = 2^Frac.  A finite number is the        *)
(* integer count of units 2^-Frac it stands for; Inf, -Inf and NaN are     *)
(* integers outside the finite range.  Zero is unsigned.                   *)
(***************************************************************************)
EXTENDS Integers, Sequences, FiniteSets, TLC

Prec == 4
Frac == 4
ERange == 1
EMax == Frac + ERange

RECURSIVE Pow2(_)
Pow2(n) == IF n <= 0 THEN 1 ELSE 2 * Pow2(n - 1)

One == Pow2(Frac)
Inf == Pow2(Prec + EMax)
NaN == Inf + 1
MaxFinite == (Pow2(Prec) - 1) * Pow2(EMax)

Abs(v) == IF v < 0 THEN -v ELSE v
Sgn(v) == IF v < 0 THEN -1 ELSE 1
IsNaN(v) == v = NaN
IsInf(v) == v = Inf \/ v = -Inf
IsFinite(v) == ~IsNaN(v) /\ ~IsInf(v)

FiniteFloats ==
  { s * m * Pow2(e) : s \in {-1, 1}, m \in 0..(Pow2(Prec) - 1), e \in 0..EMax }
Floats == FiniteFloats \cup {Inf, -Inf, NaN}

\* The exponent of the binade that holds the magnitude n/d (d > 0, n >= 0):
\* the least e with n/d < 2^(Prec+e), capped at EMax.
RECURSIVE BinadeOf(_, _, _)
BinadeOf(n, d, e) ==
  IF e >= EMax \/ n < Pow2(Prec + e) * d THEN e ELSE BinadeOf(n, d, e + 1)

\* Round the magnitude n/d units to the nearest number of the format, ties to
\* the even significand; a magnitude that rounds to 2^(Prec+EMax) is Inf.
RoundMag(n, d) ==
  IF n >= Inf * d THEN Inf
  ELSE LET e == BinadeOf(n, d, 0)
           q == d * Pow2(e)
           m == n \div q
           r == n % q
           up == (2 * r > q) \/ (2 * r = q /\ m % 2 = 1)
       IN  (IF up THEN m + 1 ELSE m) * Pow2(e)

\* The f64 nearest to the exact rational n/d units (d # 0).
Round(n, d) ==
  LET s == Sgn(n) * Sgn(d) IN s * RoundMag(Abs(n), Abs(d))

\* The arithmetic of f64.  Each operation is a function on Floats: an operand
\* is evaluated once, before the operation is applied to it, as the program
\* computes each intermediate f64 once.
neg == [a \in Floats |-> IF IsNaN(a) THEN NaN ELSE -a]

add ==
  [a \in Floats |-> [b \in Floats |->
     IF IsNaN(a) \/ IsNaN(b) THEN NaN
     ELSE IF IsInf(a) /\ IsInf(b) THEN (IF a = b THEN a ELSE NaN)
     ELSE IF IsInf(a) THEN a
     ELSE IF IsInf(b) THEN b
     ELSE Round(a + b, 1)]]

mul ==
  [a \in Floats |-> [b \in Floats |->
     IF IsNaN(a) \/ IsNaN(b) THEN NaN
     ELSE IF IsInf(a) \/ IsInf(b)
          THEN (IF a = 0 \/ b = 0 THEN NaN ELSE Sgn(a) * Sgn(b) * Inf)
     ELSE Round(a * b, One)]]

div ==
  [a \in Floats |-> [b \in Floats |->
     IF IsNaN(a) \/ IsNaN(b) THEN NaN
     ELSE IF IsInf(a) THEN (IF IsInf(b) THEN NaN ELSE Sgn(a) * Sgn(b) * Inf)
     ELSE IF IsInf(b) THEN 0
     ELSE IF b = 0 THEN (IF a = 0 THEN NaN ELSE Sgn(a) * Inf)
     ELSE Round(a * One, b)]]

abs == [a \in Floats |-> IF IsNaN(a) THEN NaN ELSE Abs(a)]

\* a < b and a >= b on f64: false when either side is NaN.
lt(a, b) == ~IsNaN(a) /\ ~IsNaN(b) /\ a < b
ge(a, b) == ~IsNaN(a) /\ ~IsNaN(b) /\ a >= b

FNeg(a) == neg[a]
FAdd(a, b) == add[a][b]
FSub(a, b) == add[a][neg[b]]
FMul(a, b) == mul[a][b]
FDiv(a, b) == div[a][b]
FAbs(a) == abs[a]
FLt(a, b) == lt(a, b)
FGe(a, b) == ge(a, b)

\* An f64 literal or integer-to-float conversion (`2.0`, `n as f64`).
Lit(n) == Round(n * One, 1)
\* A quotient of two literals (`25.0 / 216.0`); both literals are exact in f64.
Rat(n, d) == Round(n * One, d)

\* s^k <= t for s >= 0, k >= 1, without forming s^k.
RECURSIVE PowLE(_, _, _)
PowLE(s, k, t) ==
  IF k = 0 THEN 1 <= t
  ELSE IF s = 0 THEN 0 <= t
  ELSE PowLE(s, k - 1, t \div s)

\* The largest s >= r with s^k <= t.
RECURSIVE RootFloor(_, _, _)
RootFloor(r, k, t) == IF PowLE(r + 1, k, t) THEN RootFloor(r + 1, k, t) ELSE r

RECURSIVE IPow(_, _)
IPow(b, k) == IF k = 0 THEN 1 ELSE b * IPow(b, k - 1)

\* f64::powf(1.0 / k) for the two exponents of the program, 0.2 and 1.0/3.0.
\* libm's pow is accurate to within an ulp, not correctly rounded: the model
\* takes the k-th root rounded toward zero.
root ==
  [k \in {3, 5} |-> [a \in Floats |->
     IF IsInf(a) THEN Inf
     ELSE IF IsNaN(a) \/ a < 0 THEN NaN
     ELSE Round(RootFloor(0, k, a * IPow(One, k - 1)), 1)]]

rootf(a, k) == root[k][a]

powf02(a) == rootf(a, 5)

(***************************************************************************)
(* The derivative capability: trait ODE (scalar) and trait ODESYS (vector).*)
(* The caller's function is pure; the model draws it from the affine       *)
(* family f(x, y) = a + b*x + c*y, evaluated in f64 like everything else.  *)
(***************************************************************************)
eval(ode, x, y) == FAdd(FAdd(ode.a, FMul(ode.b, x)), FMul(ode.c, y))

\* The value of a one-element set: { e : u \in {a} } evaluates a once.
The(S) == CHOOSE r \in S : TRUE

(***************************************************************************)
(* Helper functions of the scalar solvers.                                 *)
(***************************************************************************)
\* rkf.rs: `tolerance = 1e-6`.  1e-6 lies far below 1.0 and far above the
\* underflow threshold of f64; at the model's width it is the smallest
\* positive number of the format.
tolerance == 1

\* rkf.rs step: `let y_next_star = y + d1*k1 + d3*k3 + d4*k4 + d5*k5 + d6*k6`,
\* k the stages <<k1, .., k6>>.
y_next_star_of(yv, k) ==
  LET d1 == Rat(16, 135)
      d3 == Rat(6656, 12825)
      d4 == Rat(28561, 56430)
      d5 == Rat(-9, 50)
      d6 == Rat(2, 55)
  IN  FAdd(FAdd(FAdd(FAdd(FAdd(yv, FMul(d1, k[1])), FMul(d3, k[3])),
                     FMul(d4, k[4])), FMul(d5, k[5])), FMul(d6, k[6]))

\* A y_next that is the starred combination.
y_next_starred(yv, k) == y_next_star_of(yv, k)

\* rkf.rs step: `let y_next = y + c1*k1 + c3*k3 + c4*k4 + c5*k5`
y_next_of(yv, k) ==
  LET c1 == Rat(25, 216)
      c3 == Rat(1408, 2565)
      c4 == Rat(2197, 4104)
      c5 == Rat(-1, 5)
  IN  FAdd(FAdd(FAdd(FAdd(yv, FMul(c1, k[1])), FMul(c3, k[3])), FMul(c4, k[4])),
           FMul(c5, k[5]))

\* A quantizer that commits every trial value.
q_current_always(updated_value, q_prev, delta_q) == updated_value

\* qss.rs: `if (updated_value - q_prev).abs() >= delta_q { updated_value }
\* else { q_prev }`
q_current(updated_value, q_prev, delta_q) ==
  IF FGe(FAbs(FSub(updated_value, q_prev)), delta_q)
  THEN updated_value ELSE q_prev

\* The trial change scaled by x in the place of h.
update2_by_x(ode, x, y, h, delta_q) ==
  q_current(FAdd(y, FMul(x, eval(ode, x, y))), y, delta_q)

\* qss.rs update2
update2(ode, x, y, h, delta_q) ==
  LET k1 == eval(ode, x, y)
      k2 == eval(ode, FAdd(x, h), FAdd(y, FMul(h, k1)))
      q_prev == y
      updated_value == FAdd(q_prev, FDiv(FMul(h, FAdd(k1, k2)), Lit(2)))
  IN  q_current(updated_value, q_prev, delta_q)

\* qss.rs update3
update3(ode, x, y, h, delta_q) ==
  LET k1 == eval(ode, x, y)
      k2 == eval(ode, FAdd(x, FDiv(h, Lit(2))), FAdd(y, FMul(FDiv(h, Lit(2)), k1)))
      k3 == eval(ode, FAdd(x, h),
                 FAdd(y, FMul(h, FAdd(FNeg(k1), FMul(Lit(2), k2)))))
      q_prev == y
      updated_value ==
        FAdd(q_prev, FDiv(FMul(h, FAdd(FAdd(k1, FMul(Lit(4), k2)), k3)), Lit(6)))
  IN  q_current(updated_value, q_prev, delta_q)

(***************************************************************************)
(* Vector arithmetic helpers (ode_sys/mod.rs) and the vector derivative.   *)
(* A helper evaluates each operand once.                                   *)
(***************************************************************************)
Min(a, b) == IF a <= b THEN a ELSE b

\* A zip that loses the last pair.
add_vec_short(a, b) ==
  The({ [j \in 1..(Min(Len(u), Len(v)) - 1) |-> FAdd(u[j], v[j])] :
          u \in {a}, v \in {b} })

\* a.iter().zip(b.iter()): stops at the shorter operand.
add_vec(a, b) ==
  The({ [j \in 1..Min(Len(u), Len(v)) |-> FAdd(u[j], v[j])] :
          u \in {a}, v \in {b} })

vec_scalar_mul(a, scalar) ==
  The({ [j \in 1..Len(u) |-> FMul(u[j], c)] : u \in {a}, c \in {scalar} })

\* vec![v; n]
Fill(v, n) == [j \in 1..n |-> v]

\* The caller's system: ode.len components.  Either component j is affine in
\* x and y[j], or the system is the harmonic oscillator,
\* `vec![y[1], -y[0]]`.
evalsys(ode, x, y) ==
  The({ [j \in 1..ode.len |->
           IF ode.osc THEN (IF j = 1 THEN yv[2] ELSE FNeg(yv[1]))
           ELSE FAdd(FAdd(ode.a, FMul(ode.b, xv)),
                     FMul(ode.c, IF j <= Len(yv) THEN yv[j] ELSE 0))] :
          xv \in {x}, yv \in {y} })

\* rk_sys.rs rk4_step
rk4_step(x, y_n, h, ode) ==
  LET k1 == vec_scalar_mul(evalsys(ode, x, y_n), h)
      k2 == vec_scalar_mul(evalsys(ode, FAdd(x, FDiv(h, Lit(2))),
                                   add_vec(y_n, vec_scalar_mul(k1, Rat(1, 2)))), h)
      k3 == vec_scalar_mul(evalsys(ode, FAdd(x, FDiv(h, Lit(2))),
                                   add_vec(y_n, vec_scalar_mul(k2, Rat(1, 2)))), h)
      k4 == vec_scalar_mul(evalsys(ode, FAdd(x, h), add_vec(y_n, k3)), h)
      result ==
        add_vec(y_n,
          vec_scalar_mul(
            add_vec(k1, add_vec(vec_scalar_mul(k2, Lit(2)),
                                add_vec(vec_scalar_mul(k3, Lit(2)), k4))),
            Rat(1, 6)))
  IN  result

\* `for (idx, val) in src.iter().enumerate() { dst[idx] = ... }` indexes dst
\* with every index of src: it panics when src is longer than dst.
Overrun(src, dst) == Len(src) > Len(dst)

\* yoshida4.rs: the composition coefficients
yo_c1 == FDiv(Lit(1), FSub(Lit(2), rootf(Lit(2), 3)))
yo_c2 == FMul(FNeg(rootf(Lit(2), 3)), yo_c1)
yo_d1 == FSub(Lit(1), FMul(Lit(2), yo_c1))
yo_d2 == FSub(Lit(1), FMul(Lit(2), yo_c2))

(***************************************************************************)
(* One call of one integrator.                                             *)
(***************************************************************************)
VARIABLES
  arg,    \* the call: integrator m and its arguments
  pc,     \* "call" (entered, locals not yet set), "loop", "done", "panic"
  x, y, h, \* the locals x (x_val), y and h
  i,      \* the index of `for _i in 0..n`
  steps,  \* completed loop iterations, counted up to MaxSteps
  tick,   \* parity of the completed loop iterations
  last,   \* the locals at the start of the latest iteration
  qs,     \* the further locals of ivp_qss1: its position pos in the loop
          \* body, x_, the inner x_ (xs), q, res and the iterations cnt
          \* that remain of the inner `for`
  t2      \* a second thread, calling eu_ivp with arguments of its own: its
          \* arguments, its position pc and its locals x and y

vars == <<arg, pc, x, y, h, i, steps, tick, last, qs, t2>>

MaxSteps == 14
MaxDim == 3
MaxN == 3

ScalarFixed == {"eu_ivp", "he_ivp", "rk2_ivp", "rk4_ivp", "ab_ivp", "am_ivp",
                "bs_ivp"}
ScalarWhile == ScalarFixed \cup {"rkf_ivp", "qss1_ivp", "ivp_qss2", "ivp_qss3"}
Trajectory == {"ivp_qss1"}
VectorWhile == {"eu_solve", "rk_solve", "fr_solve", "lf_solve", "ia_solve"}
VectorFor == {"ve_solve", "yo_solve", "qss_solve"}
Vector == VectorWhile \cup VectorFor
Quantized == {"ivp_qss2", "ivp_qss3", "qss_solve"}

\* The arguments the model calls the integrators with, in units of 2^-Frac.
X0Vals == {0, 16}
XTargetVals == {0, 18, 40}
HVals == {-5, 0, 1, 5, 16}
Y0Vals == {16}
DeltaQVals == {0, 8}
SysDeltaQVals == {0, 8, 64, Inf}
Odes == { [a |-> 0, b |-> 0, c |-> 0], [a |-> 16, b |-> 0, c |-> 0],
          [a |-> 0, b |-> 16, c |-> 16], [a |-> 0, b |-> 0, c |-> -16],
          [a |-> 0, b |-> 16, c |-> 0] }
VecHVals == {-5, 0, 5, 16}
VecXTargetVals == {-8, 0, 18}
Y0Vecs == { [k \in 1..d |-> 16 * k] : d \in 1..MaxDim }
BVals == {0, 16, 20}
OdeSys(d) == { [len |-> l, a |-> o.a, b |-> o.b, c |-> o.c, osc |-> FALSE] :
                 l \in {d - 1, d, d + 1}, o \in {Odes_o \in Odes : Odes_o.b = 0} }

\* dx/dt = v, dv/dt = -x from (1.0, 0.0).  The step sizes 0.5 and 1.0 keep
\* every intermediate value of the first step of lf_solve, ve_solve and
\* eu_solve exactly representable, so the energy after that step is the energy
\* f64 computes.
Oscillator == [len |-> 2, a |-> 0, b |-> 0, c |-> 0, osc |-> TRUE]
OscY0 == <<16, 0>>
OscHVals == {8, 16}
OscBVals == {16}
OscNVals == {1}
OscSolvers == {"lf_solve", "ve_solve", "eu_solve"}
Symplectic == {"lf_solve", "fr_solve", "yo_solve", "ve_solve"}

Call(m, ode, x0, y0, h0, xt, a, b, n, dq) ==
  [m |-> m, ode |-> ode, x0 |-> x0, y0 |-> y0, h |-> h0, x_target |-> xt,
   a |-> a, b |-> b, n |-> n, delta_q |-> dq]

ScalarCalls ==
  { Call(m, ode, x0, 16, h0, xt, 0, 0, 0, dq) :
      m \in ScalarWhile \ Quantized, ode \in Odes, x0 \in X0Vals,
      h0 \in HVals, xt \in XTargetVals, dq \in {0} }
  \cup
  { Call(m, ode, x0, 16, h0, xt, 0, 0, 0, dq) :
      m \in ScalarWhile \cap Quantized, ode \in Odes, x0 \in X0Vals,
      h0 \in HVals, xt \in XTargetVals, dq \in DeltaQVals }

\* ivp_qss1 is called with h > 0.
Qss1HVals == {5, 16}
Qss1XTargetVals == {18, 40}
Qss1Y0Vals == {4, 16}
Qss1Calls ==
  { Call(m, ode, x0, y0, h0, xt, 0, 0, 0, dq) :
      m \in Trajectory, ode \in Odes, x0 \in X0Vals, y0 \in Qss1Y0Vals,
      h0 \in Qss1HVals, xt \in Qss1XTargetVals, dq \in DeltaQVals }

VectorCalls ==
  UNION { { Call(m, ode, 0, y0, h0, xt, 0, 0, 0, 0) :
              m \in VectorWhile, ode \in OdeSys(Len(y0)), h0 \in VecHVals,
              xt \in VecXTargetVals } : y0 \in Y0Vecs }
  \cup
  UNION { { Call(m, ode, 0, y0, 0, 0, 0, b, n, 0) :
              m \in VectorFor \ Quantized, ode \in OdeSys(Len(y0)),
              b \in BVals, n \in 0..MaxN } : y0 \in Y0Vecs }
  \cup
  UNION { { Call(m, ode, 0, y0, 0, 0, 0, b, n, dq) :
              m \in VectorFor \cap Quantized, ode \in OdeSys(Len(y0)),
              b \in BVals, n \in 0..MaxN, dq \in SysDeltaQVals } :
            y0 \in Y0Vecs }

OscillatorCalls ==
  { Call(m, Oscillator, 0, OscY0, h0, 18, 0, 0, 0, 0) :
      m \in OscSolvers \cap VectorWhile, h0 \in OscHVals }
  \cup
  { Call(m, Oscillator, 0, OscY0, 0, 0, 0, b, n, 0) :
      m \in OscSolvers \cap VectorFor, b \in OscBVals, n \in OscNVals }

\* The second thread before it is spawned, and at the entry of its call.
T2Idle ==
  [pc |-> "idle", ode |-> [a |-> 0, b |-> 0, c |-> 0], x0 |-> 0, y0 |-> 0,
   h |-> 0, x_target |-> 0, x |-> 0, y |-> 0, steps |-> 0, between |-> FALSE]
T2Call(ode, x0, y0, h0, xt) ==
  [pc |-> "loop", ode |-> ode, x0 |-> x0, y0 |-> y0, h |-> h0, x_target |-> xt,
   x |-> x0, y |-> y0, steps |-> 0, between |-> FALSE]

Init ==
  /\ arg \in ScalarCalls \cup VectorCalls \cup OscillatorCalls \cup Qss1Calls
  /\ pc = "call"
  /\ x = arg.x0
  /\ y = arg.y0
  /\ h = arg.h
  /\ i = 0
  /\ steps = 0
  /\ tick = FALSE
  /\ last = <<>>
  /\ qs = [pos |-> "top", x_ |-> 0, xs |-> 0, q |-> 0, cnt |-> 0, res |-> <<0>>]
  /\ t2 = T2Idle

\* A loop that runs until x hits x_target.
loop_cond_ne(xv, x_target) == xv # x_target

\* `while x < x_target`
loop_cond(xv, x_target) == FLt(xv, x_target)

Bump(s) == IF s < MaxSteps THEN s + 1 ELSE s

\* Function entry: the locals are bound; the (a, b, n) solvers derive h.
Enter ==
  /\ pc = "call"
  /\ pc' = "loop"
  /\ h' = IF arg.m \in VectorFor
          THEN FDiv(FSub(arg.b, arg.a), Lit(arg.n)) ELSE arg.h
  /\ UNCHANGED <<t2, arg, x, y, i, steps, tick, last, qs>>

\* The end of one loop iteration.
Commit(ynew, xnew, hnew, inew, info) ==
  /\ y' = ynew
  /\ x' = xnew
  /\ h' = hnew
  /\ i' = inew
  /\ steps' = Bump(steps)
  /\ tick' = ~tick
  /\ last' = [x |-> x, y |-> y, h |-> h, info |-> info]
  /\ UNCHANGED <<t2, arg, pc, qs>>

\* An indexing or slice-length panic unwinds the call.
Abort ==
  /\ pc' = "panic"
  /\ UNCHANGED <<t2, arg, x, y, h, i, steps, tick, last, qs>>

InWhile(m) == pc = "loop" /\ arg.m = m /\ loop_cond(x, arg.x_target)
InFor(m) == pc = "loop" /\ arg.m = m /\ i < arg.n

(***************************************************************************)
(* One iteration of each scalar solver.  A `let` of the source is a bound  *)
(* variable of the action.                                                 *)
(***************************************************************************)
\* euler.rs: y += h * slope; x += h
eu_ivp ==
  /\ InWhile("eu_ivp")
  /\ \E slope \in {eval(arg.ode, x, y)} :
       Commit(FAdd(y, FMul(h, slope)), FAdd(x, h), h, i, <<>>)

\* heun.rs: y += (f(x + h, y_) + f(x, y)) * h / 2.0
he_step(ode, xv, yv, hv) ==
  The({ FAdd(yv, FDiv(FMul(FAdd(eval(ode, FAdd(xv, hv),
                                     FAdd(yv, FMul(hv, slope))),
                                eval(ode, xv, yv)), hv), Lit(2))) :
          slope \in {eval(ode, xv, yv)} })

he_ivp ==
  /\ InWhile("he_ivp")
  /\ Commit(he_step(arg.ode, x, y, h), FAdd(x, h), h, i, <<>>)

\* rk.rs: two-stage Runge-Kutta
\* The second stage alone in the place of the average of the two.
rk2_slope_k2(k1, k2) == k2

\* let slope = 0.5 * (k1 + k2)
rk2_slope(k1, k2) == FMul(Rat(1, 2), FAdd(k1, k2))

rk2_step(ode, xv, yv, hv) ==
  The({ FAdd(yv, rk2_slope(k1, FMul(hv, eval(ode, FAdd(xv, hv),
                                             FAdd(yv, k1))))) :
          k1 \in {FMul(hv, eval(ode, xv, yv))} })

rk2_ivp ==
  /\ InWhile("rk2_ivp")
  /\ Commit(rk2_step(arg.ode, x, y, h), FAdd(x, h), h, i, <<>>)

\* rk.rs: classical four-stage Runge-Kutta
rk4_ivp ==
  /\ InWhile("rk4_ivp")
  /\ \E k1 \in {FMul(h, eval(arg.ode, x, y))} :
     \E k2 \in {FMul(h, eval(arg.ode, FAdd(x, FMul(Rat(1, 2), h)),
                             FAdd(y, FMul(Rat(1, 2), k1))))} :
     \E k3 \in {FMul(h, eval(arg.ode, FAdd(x, FMul(Rat(1, 2), h)),
                             FAdd(y, FMul(Rat(1, 2), k2))))} :
     \E k4 \in {FMul(h, eval(arg.ode, FAdd(x, h), FAdd(y, k3)))} :
     \E slope \in {FDiv(FAdd(FAdd(FAdd(k1, FMul(Lit(2), k2)), FMul(Lit(2), k3)),
                             k4), Lit(6))} :
       Commit(FAdd(y, slope), FAdd(x, h), h, i, <<>>)

\* adams_bashforth.rs: y += h * (1.5 * f1 - 0.5 * f0)
\* The Euler predictor in the place of the two-point formula.
ab_update_f0(yv, hv, f0, f1) == FAdd(yv, FMul(hv, f0))

ab_update(yv, hv, f0, f1) ==
  FAdd(yv, FMul(hv, FSub(FMul(Rat(3, 2), f1), FMul(Rat(1, 2), f0))))

ab_ivp ==
  /\ InWhile("ab_ivp")
  /\ \E f0 \in {eval(arg.ode, x, y)} :
     \E f1 \in {eval(arg.ode, FAdd(x, h), FAdd(y, FMul(h, f0)))} :
       Commit(ab_update(y, h, f0, f1), FAdd(x, h), h, i,
              [f0 |-> f0, f1 |-> f1])

\* adams_moulton.rs: y += h * (5.0 * f1 + 8.0 * f0) / 12.0
am_update(yv, hv, f0, f1) ==
  FAdd(yv, FDiv(FMul(hv, FAdd(FMul(Lit(5), f1), FMul(Lit(8), f0))), Lit(12)))

am_ivp ==
  /\ InWhile("am_ivp")
  /\ \E f0 \in {eval(arg.ode, x, y)} :
     \E f1 \in {eval(arg.ode, FAdd(x, h), FAdd(y, FMul(h, f0)))} :
       Commit(am_update(y, h, f0, f1), FAdd(x, h), h, i,
              [f0 |-> f0, f1 |-> f1])

\* The three-stage value y_ in the place of q.
bs_q_third(yv, k) ==
  FAdd(FAdd(FAdd(yv, FMul(Rat(2, 3), k[1])), FMul(Rat(1, 9), k[2])),
       FMul(Rat(4, 9), k[3]))

\* bogacki_shampine.rs:
\* `let q = y + 7.0/24.0*k1 + 1.0/4.0*k2 + 1.0/3.0*k3 + 1.0/8.0*k4`
bs_q(yv, k) ==
  FAdd(FAdd(FAdd(FAdd(yv, FMul(Rat(7, 24), k[1])), FMul(Rat(1, 4), k[2])),
            FMul(Rat(1, 3), k[3])), FMul(Rat(1, 8), k[4]))

\* bogacki_shampine.rs: four stages, the fourth evaluated at x; y = q
bs_ivp ==
  /\ InWhile("bs_ivp")
  /\ \E k1 \in {FMul(h, eval(arg.ode, x, y))} :
     \E k2 \in {FMul(h, eval(arg.ode, FAdd(x, FDiv(h, Lit(2))),
                             FAdd(y, FDiv(k1, Lit(2)))))} :
     \E k3 \in {FMul(h, eval(arg.ode, FAdd(x, FDiv(FMul(h, Lit(3)), Lit(4))),
                             FAdd(y, FMul(Rat(3, 4), k2))))} :
     \E y_ \in {FAdd(FAdd(FAdd(y, FMul(Rat(2, 3), k1)), FMul(Rat(1, 9), k2)),
                     FMul(Rat(4, 9), k3))} :
     \E k4 \in {FMul(h, eval(arg.ode, x, y_))} :
     \E k \in {<<k1, k2, k3, k4>>} :
     \E q \in {bs_q(y, k)} :
       Commit(q, FAdd(x, h), h, i, [k |-> k, y_ |-> y_, q |-> q])

\* qss1.rs: y += h * slope; x += h
qss1_ivp ==
  /\ InWhile("qss1_ivp")
  /\ \E slope \in {eval(arg.ode, x, y)} :
       Commit(FAdd(y, FMul(h, slope)), FAdd(x, h), h, i, <<>>)

\* qss.rs: y = self.update2(ode, x, y, h, delta_q); x += h
ivp_qss2 ==
  /\ InWhile("ivp_qss2")
  /\ Commit(update2(arg.ode, x, y, h, arg.delta_q), FAdd(x, h), h, i, <<>>)

\* qss.rs: y = self.update3(ode, x, y, h, delta_q); x += h
ivp_qss3 ==
  /\ InWhile("ivp_qss3")
  /\ Commit(update3(arg.ode, x, y, h, arg.delta_q), FAdd(x, h), h, i, <<>>)

(***************************************************************************)
(* qss.rs ivp_qss1.  One outer iteration is: the head (ivp_qss1), the      *)
(* first inner `while` (ivp_qss1_wait, left by ivp_qss1_count, which also  *)
(* evaluates the range of the `for`), the passes of the `for`              *)
(* (ivp_qss1_inner, with their own `while`: ivp_qss1_inner_wait, left by   *)
(* ivp_qss1_inner_done) and `res.push(y)` (ivp_qss1_push).                 *)
(***************************************************************************)
\* `f as usize`: truncation toward zero, saturating; NaN is 0.
UsizeMax == Inf
as_usize(v) ==
  IF IsNaN(v) \/ v <= 0 THEN 0 ELSE IF v = Inf THEN UsizeMax ELSE v \div One

\* `(q - ode.eval(x - x_, y)).abs() < delta_q`
qss1_waiting(ode, q, xv, x_, yv, delta_q) ==
  FLt(FAbs(FSub(q, eval(ode, FSub(xv, x_), yv))), delta_q)

\* `y += ode.eval(x, y) * e` with `e = x - x*y`
qss1_update(ode, xv, yv) ==
  FAdd(yv, FMul(eval(ode, xv, yv), FSub(xv, FMul(xv, yv))))

\* `res.push(y)`; the model stops recording at MaxSteps pushes.
qss1_pushed(res, yv) == IF Len(res) <= MaxSteps THEN Append(res, yv) ELSE res

InQss1(pos) == pc = "loop" /\ arg.m = "ivp_qss1" /\ qs.pos = pos

\* x += h; e = x - x*y; y += ode.eval(x, y)*e; q = y; let mut x_ = x + h
ivp_qss1 ==
  /\ InQss1("top")
  /\ loop_cond(x, arg.x_target)
  /\ \E x1 \in {FAdd(x, h)} :
     \E y1 \in {qss1_update(arg.ode, x1, y)} :
       /\ x' = x1
       /\ y' = y1
       /\ qs' = [qs EXCEPT !.pos = "wait", !.q = y1, !.x_ = FAdd(x1, h)]
       /\ last' = [x |-> x, y |-> y, h |-> h, info |-> <<>>]
  /\ tick' = ~tick
  /\ UNCHANGED <<t2, arg, pc, h, i, steps>>

\* one pass of the first inner `while`: x_ += h
ivp_qss1_wait ==
  /\ InQss1("wait")
  /\ qss1_waiting(arg.ode, qs.q, x, qs.x_, y, arg.delta_q)
  /\ qs' = [qs EXCEPT !.x_ = FAdd(qs.x_, h)]
  /\ tick' = ~tick
  /\ UNCHANGED <<t2, arg, pc, x, y, h, i, steps, last>>

\* the first inner `while` ends; `0..((x_target - x)/h) as usize`
ivp_qss1_count ==
  /\ InQss1("wait")
  /\ ~qss1_waiting(arg.ode, qs.q, x, qs.x_, y, arg.delta_q)
  /\ qs' = [qs EXCEPT !.pos = "for",
                      !.cnt = as_usize(FDiv(FSub(arg.x_target, x), h))]
  /\ UNCHANGED <<t2, arg, pc, x, y, h, i, steps, tick, last>>

\* one pass of the `for`: e = x_ - x_*y; y += ode.eval(x_, y)*e;
\* let mut x_ = x + h (a new x_ that shadows the outer one)
ivp_qss1_inner ==
  /\ InQss1("for")
  /\ qs.cnt > 0
  /\ y' = qss1_update(arg.ode, qs.x_, y)
  /\ qs' = [qs EXCEPT !.pos = "inner", !.xs = FAdd(x, h)]
  /\ tick' = ~tick
  /\ UNCHANGED <<t2, arg, pc, x, h, i, steps, last>>

\* one pass of the `while` inside the `for`: x_ += h on the inner x_
ivp_qss1_inner_wait ==
  /\ InQss1("inner")
  /\ qss1_waiting(arg.ode, qs.q, x, qs.xs, y, arg.delta_q)
  /\ qs' = [qs EXCEPT !.xs = FAdd(qs.xs, h)]
  /\ tick' = ~tick
  /\ UNCHANGED <<t2, arg, pc, x, y, h, i, steps, last>>

\* the `while` inside the `for` ends, and with it the pass of the `for`
ivp_qss1_inner_done ==
  /\ InQss1("inner")
  /\ ~qss1_waiting(arg.ode, qs.q, x, qs.xs, y, arg.delta_q)
  /\ qs' = [qs EXCEPT !.pos = "for", !.cnt = qs.cnt - 1]
  /\ UNCHANGED <<t2, arg, pc, x, y, h, i, steps, tick, last>>

\* the `for` is exhausted: res.push(y) ends the outer iteration
ivp_qss1_push ==
  /\ InQss1("for")
  /\ qs.cnt = 0
  /\ qs' = [qs EXCEPT !.pos = "top", !.res = qss1_pushed(qs.res, y)]
  /\ steps' = Bump(steps)
  /\ UNCHANGED <<t2, arg, pc, x, y, h, i, tick, last>>

\* An advance of x by the step size the step proposes.
rkf_advance_new(xv, hv, h_new) == FAdd(xv, h_new)

\* rkf.rs: `x += h`, before `h = h_new`
rkf_advance(xv, hv, h_new) == FAdd(xv, hv)

\* rkf.rs: (y_next, h_new) = step(ode, x, y, h, tolerance); y = y_next;
\* x += h; h = h_new.  The bound variables are the locals of step.
rkf_ivp ==
  /\ InWhile("rkf_ivp")
  /\ \E a2 \in {Rat(1, 4)}, a3 \in {Rat(3, 8)}, a4 \in {Rat(12, 13)},
        a5 \in {Lit(1)}, a6 \in {Rat(1, 2)},
        b21 \in {Rat(1, 4)},
        b31 \in {Rat(3, 32)}, b32 \in {Rat(9, 32)},
        b41 \in {Rat(1932, 2197)}, b42 \in {Rat(-7200, 2197)},
        b43 \in {Rat(7296, 2197)},
        b51 \in {Rat(439, 216)}, b52 \in {Lit(-8)}, b53 \in {Rat(3680, 513)},
        b54 \in {Rat(-845, 4104)},
        b61 \in {Rat(-8, 27)}, b62 \in {Lit(2)}, b63 \in {Rat(-3544, 2565)},
        b64 \in {Rat(1859, 4104)}, b65 \in {Rat(-11, 40)} :
     \E k1 \in {FMul(h, eval(arg.ode, x, y))} :
     \E k2 \in {FMul(h, eval(arg.ode, FAdd(x, FMul(a2, h)),
                             FAdd(y, FMul(b21, k1))))} :
     \E k3 \in {FMul(h, eval(arg.ode, FAdd(x, FMul(a3, h)),
                             FAdd(FAdd(y, FMul(b31, k1)), FMul(b32, k2))))} :
     \E k4 \in {FMul(h, eval(arg.ode, FAdd(x, FMul(a4, h)),
                             FAdd(FAdd(FAdd(y, FMul(b41, k1)), FMul(b42, k2)),
                                  FMul(b43, k3))))} :
     \E k5 \in {FMul(h, eval(arg.ode, FAdd(x, FMul(a5, h)),
                             FAdd(FAdd(FAdd(FAdd(y, FMul(b51, k1)),
                                            FMul(b52, k2)), FMul(b53, k3)),
                                  FMul(b54, k4))))} :
     \E k6 \in {FMul(h, eval(arg.ode, FAdd(x, FMul(a6, h)),
                             FAdd(FAdd(FAdd(FAdd(FAdd(y, FMul(b61, k1)),
                                                 FMul(b62, k2)), FMul(b63, k3)),
                                       FMul(b64, k4)), FMul(b65, k5))))} :
     \E k \in {<<k1, k2, k3, k4, k5, k6>>} :
     \E y_next \in {y_next_of(y, k)} :
     \E y_next_star \in {y_next_star_of(y, k)} :
     \E error \in {FAbs(FSub(y_next, y_next_star))} :
     \E h_new \in {FMul(h, powf02(FDiv(tolerance, error)))} :
       Commit(y_next, rkf_advance(x, h, h_new), h_new, i,
              [k |-> k, y_next |-> y_next, y_next_star |-> y_next_star,
               error |-> error, h_new |-> h_new])

(***************************************************************************)
(* One iteration of each vector solver.  A vector the source overwrites    *)
(* several times has one bound variable per version.                       *)
(***************************************************************************)
\* euler_sys.rs: y[idx] += dy[idx] for every index of dy
eu_solve ==
  /\ InWhile("eu_solve")
  /\ \E dy \in {vec_scalar_mul(evalsys(arg.ode, x, y), h)} :
       IF Overrun(dy, y) THEN Abort
       ELSE Commit([j \in 1..Len(y) |->
                      IF j <= Len(dy) THEN FAdd(y[j], dy[j]) ELSE y[j]],
                   FAdd(x, h), h, i, <<>>)

\* rk_sys.rs: y.clone_from_slice(&result) panics unless the lengths agree.
rk_solve ==
  /\ InWhile("rk_solve")
  /\ \E result \in {rk4_step(x, y, h, arg.ode)} :
       IF Len(result) # Len(y) THEN Abort
       ELSE Commit(result, FAdd(x, h), h, i, <<>>)

\* forest_ruth.rs
fr_solve ==
  /\ InWhile("fr_solve")
  /\ \E k1 \in {vec_scalar_mul(evalsys(arg.ode, x, y), h)} :
     \E y_temp_1 \in {add_vec(y, vec_scalar_mul(k1, Rat(1, 2)))} :
     \E k2 \in {vec_scalar_mul(evalsys(arg.ode, FAdd(x, FMul(h, Rat(1, 2))),
                                       y_temp_1), h)} :
     \E y_temp_2 \in {add_vec(y, vec_scalar_mul(k2, Rat(1, 2)))} :
     \E k3 \in {vec_scalar_mul(evalsys(arg.ode, FAdd(x, FMul(h, Rat(1, 2))),
                                       y_temp_2), h)} :
     \E y_temp_3 \in {add_vec(y, vec_scalar_mul(k3, Lit(2)))} :
     \E k4 \in {vec_scalar_mul(evalsys(arg.ode, FAdd(x, h), y_temp_3), h)} :
     \E k23 \in {vec_scalar_mul(add_vec(k2, k3), Lit(2))} :
       Commit(add_vec(y, vec_scalar_mul(add_vec(k1, add_vec(k23, k4)),
                                        Rat(1, 6))),
              FAdd(x, h), h, i,
              [upd |-> <<[by |-> add_vec(k1, add_vec(k23, k4)),
                          scale |-> Rat(1, 6)]>>])

\* leapfrog.rs: two half updates, x_val advanced between them
\* The whole of val * h in the place of its half.
lf_whole(val, hv) == FMul(val, hv)

\* val * h / 2.0
lf_half(val, hv) == FDiv(FMul(val, hv), Lit(2))

lf_solve ==
  /\ InWhile("lf_solve")
  /\ \E dy \in {evalsys(arg.ode, x, y)} :
       IF Overrun(dy, y) THEN Abort
       ELSE
         \E half_dy \in {[j \in 1..Len(y) |->
                            IF j <= Len(dy) THEN lf_half(dy[j], h) ELSE 0]} :
         \E y1 \in {add_vec(y, half_dy)} :
         \E x1 \in {FAdd(x, h)} :
         \E next_dy \in {evalsys(arg.ode, x1, y1)} :
         \E next_half_dy \in {[j \in 1..Len(y1) |->
                                 IF j <= Len(next_dy)
                                 THEN lf_half(next_dy[j], h) ELSE 0]} :
           Commit(add_vec(y1, next_half_dy), x1, h, i,
                  [dy |-> dy, y1 |-> y1, next_dy |-> next_dy])

\* radau.rs ia_solve
ia_solve ==
  /\ InWhile("ia_solve")
  /\ \E k1 \in {evalsys(arg.ode, x, add_vec(y, Fill(h, Len(y))))} :
       Commit(add_vec(y, vec_scalar_mul(k1, h)), FAdd(x, h), h, i,
              [k |-> <<k1>>])

\* verlet.rs: one pass of `for _i in 0..n`; x_val += half_dt three times
ve_solve ==
  /\ InFor("ve_solve")
  /\ \E half_dt \in {FDiv(h, Lit(2))} :
     \E dy_1 \in {evalsys(arg.ode, x, y)} :
       IF Overrun(dy_1, y) THEN Abort
       ELSE
         \E k1_1 \in {[j \in 1..Len(y) |->
                         IF j <= Len(dy_1) THEN FMul(dy_1[j], half_dt) ELSE 0]} :
         \E y_1 \in {[j \in 1..Len(y) |->
                        IF j <= Len(dy_1) THEN FAdd(y[j], k1_1[j]) ELSE y[j]]} :
         \E x_1 \in {FAdd(x, half_dt)} :
         \E dy_2 \in {evalsys(arg.ode, x_1, y_1)} :
         \E k2 \in {[j \in 1..Len(y) |->
                       IF j <= Len(dy_2) THEN FMul(dy_2[j], h) ELSE 0]} :
         \E y_2 \in {[j \in 1..Len(y) |->
                        IF j <= Len(dy_2) THEN FAdd(y_1[j], k2[j]) ELSE y_1[j]]} :
         \E x_2 \in {FAdd(x_1, half_dt)} :
         \E dy_3 \in {evalsys(arg.ode, x_2, y_2)} :
         \E k1_3 \in {[j \in 1..Len(y) |->
                         IF j <= Len(dy_3)
                         THEN FAdd(k1_1[j], FMul(dy_3[j], half_dt))
                         ELSE k1_1[j]]} :
         \E y_3 \in {[j \in 1..Len(y) |->
                        IF j <= Len(dy_3) THEN FAdd(y_2[j], k1_3[j])
                        ELSE y_2[j]]} :
         \E x_3 \in {FAdd(x_2, half_dt)} :
           Commit(y_3, x_3, h, i + 1,
                  [dy |-> <<dy_1, dy_2, dy_3>>, y_ |-> <<y_1, y_2>>,
                   x_ |-> <<x_1, x_2>>])

\* yoshida4.rs: one pass of `for _i in 0..n`
yo_solve ==
  /\ InFor("yo_solve")
  /\ \E k1 \in {evalsys(arg.ode, x, y)} :
       IF Overrun(k1, y) THEN Abort
       ELSE
         \E dy_1 \in {[j \in 1..Len(y) |->
                         IF j <= Len(k1) THEN FMul(FMul(k1[j], yo_c1), h)
                         ELSE 0]} :
         \E y_1 \in {add_vec(y, vec_scalar_mul(dy_1, yo_d1))} :
         \E y_2 \in {add_vec(y_1, vec_scalar_mul(dy_1, yo_c2))} :
         \E k2 \in {evalsys(arg.ode, FAdd(x, FMul(yo_c2, h)), y_2)} :
         \E dy_2 \in {[j \in 1..Len(y) |->
                         IF j <= Len(k2) THEN FMul(FMul(k2[j], yo_c1), h)
                         ELSE dy_1[j]]} :
           Commit(add_vec(y_2, vec_scalar_mul(dy_2, yo_d2)), FAdd(x, h), h,
                  i + 1,
                  [upd |-> <<[by |-> dy_1, scale |-> yo_d1],
                             [by |-> dy_1, scale |-> yo_c2],
                             [by |-> dy_2, scale |-> yo_d2]>>])

\* qss_sys.rs: `dy[idx] = val * h / 2.0` for every index of k
qss_dy(dy, k, h_) ==
  [j \in 1..Len(dy) |->
     IF j <= Len(k) THEN FDiv(FMul(k[j], h_), Lit(2)) ELSE dy[j]]

\* qss_sys.rs: `dy_temp[idx] = val * d1 * h` for every index of k
qss_dy_temp_set(dy_temp, k, d1, h_) ==
  [j \in 1..Len(dy_temp) |->
     IF j <= Len(k) THEN FMul(FMul(k[j], d1), h_) ELSE dy_temp[j]]

\* qss_sys.rs: `dy_temp[idx] += val * d2 * h` for every index of k
qss_dy_temp_add(dy_temp, k, d2, h_) ==
  [j \in 1..Len(dy_temp) |->
     IF j <= Len(k) THEN FAdd(dy_temp[j], FMul(FMul(k[j], d2), h_))
     ELSE dy_temp[j]]

\* The threshold test on the magnitude of y[i] in the place of a difference.
qss_pass_abs(yv, j, delta_q) == FGe(FAbs(yv[j]), delta_q)

\* qss_sys.rs: the closing threshold test compares y[i] with itself
qss_pass(yv, j, delta_q) == FGe(FAbs(FSub(yv[j], yv[j])), delta_q)

\* qss_sys.rs: one pass of `for _i in 0..n`
qss_solve ==
  /\ InFor("qss_solve")
  /\ \E c1 \in {Rat(1, 2)}, c2 \in {Rat(1, 2)}, d1 \in {Rat(1, 2)},
        d2 \in {Rat(1, 2)}, zero \in {Fill(0, Len(y))} :
     \E k1 \in {evalsys(arg.ode, x, y)} :
       IF Overrun(k1, y) THEN Abort
       ELSE
         \E dy_1 \in {qss_dy(zero, k1, h)} :
         \E dt_1 \in {qss_dy_temp_set(zero, k1, d1, h)} :
         \E y_1 \in {add_vec(y, vec_scalar_mul(dy_1, c1))} :
         \E k2 \in {evalsys(arg.ode, FAdd(x, FMul(c1, h)), y_1)} :
         \E dt_2 \in {qss_dy_temp_add(dt_1, k2, d2, h)} :
         \E y_2 \in {add_vec(y_1, vec_scalar_mul(dt_2, c2))} :
         \E k3 \in {evalsys(arg.ode, FAdd(x, FMul(c2, h)), y_2)} :
         \E dy_3 \in {qss_dy(dy_1, k3, h)} :
         \E dt_3 \in {qss_dy_temp_set(dt_2, k3, d1, h)} :
         \E y_3 \in {add_vec(y_2, vec_scalar_mul(dy_3, c1))} :
         \E k4 \in {evalsys(arg.ode, FAdd(x, FMul(c1, h)), y_3)} :
         \E dt_4 \in {qss_dy_temp_add(dt_3, k4, d2, h)} :
         \E y_4 \in {add_vec(y_3, vec_scalar_mul(dt_4, c2))} :
         \E k5 \in {evalsys(arg.ode, FAdd(x, FMul(c2, h)), y_4)} :
         \E dy_5 \in {qss_dy(dy_3, k5, h)} :
         \E dt_5 \in {qss_dy_temp_set(dt_4, k5, d1, h)} :
         \E y_5 \in {add_vec(y_4, vec_scalar_mul(dy_5, c1))} :
         \E k6 \in {evalsys(arg.ode, FAdd(x, FMul(c1, h)), y_5)} :
         \E dt_6 \in {qss_dy_temp_add(dt_5, k6, d2, h)} :
         \E y_6 \in {add_vec(y_5, vec_scalar_mul(dt_6, c2))} :
         \E k7 \in {evalsys(arg.ode, FAdd(x, FMul(c2, h)), y_6)} :
         \E dy_7 \in {qss_dy(dy_5, k7, h)} :
         \E y_7 \in {add_vec(y_6, vec_scalar_mul(dy_7, c1))} :
           IF \E j \in 1..Len(y_7) : qss_pass(y_7, j, arg.delta_q) /\ j > Len(k1)
           THEN Abort
           ELSE Commit([j \in 1..Len(y_7) |->
                          IF qss_pass(y_7, j, arg.delta_q)
                          THEN FAdd(y_7[j], FMul(h, k1[j])) ELSE y_7[j]],
                       FAdd(x, h), h, i + 1,
                       [k1 |-> k1, y_7 |-> y_7,
                        gated |-> {j \in 1..Len(y_7) :
                                     qss_pass(y_7, j, arg.delta_q)}])

\* The loop test fails: the function returns y.
Return ==
  /\ pc = "loop"
  /\ IF arg.m \in VectorFor THEN ~(i < arg.n) ELSE ~loop_cond(x, arg.x_target)
  /\ qs.pos = "top"
  /\ pc' = "done"
  /\ UNCHANGED <<t2, arg, x, y, h, i, steps, tick, last, qs>>

Next ==
  \/ Enter
  \/ eu_ivp \/ he_ivp \/ rk2_ivp \/ rk4_ivp \/ ab_ivp \/ am_ivp \/ bs_ivp
  \/ rkf_ivp \/ qss1_ivp \/ ivp_qss2 \/ ivp_qss3
  \/ eu_solve \/ rk_solve \/ fr_solve \/ lf_solve \/ ia_solve
  \/ ve_solve \/ yo_solve \/ qss_solve
  \/ ivp_qss1 \/ ivp_qss1_wait \/ ivp_qss1_count \/ ivp_qss1_inner
  \/ ivp_qss1_inner_wait \/ ivp_qss1_inner_done \/ ivp_qss1_push
  \/ Return

Spec == Init /\ [][Next]_vars

\* The scalar fixed-step integrators alone.  The loops are sequential code:
\* an enabled step is eventually taken.
FixedInit == Init /\ arg.m \in ScalarFixed
FixedNext ==
  \/ Enter
  \/ eu_ivp \/ he_ivp \/ rk2_ivp \/ rk4_ivp \/ ab_ivp \/ am_ivp \/ bs_ivp
  \/ Return
FixedSpec == FixedInit /\ [][FixedNext]_vars
FairFixedSpec == FixedSpec /\ WF_vars(FixedNext)

(***************************************************************************)
(* Two calls on two threads.  The first thread calls eu_ivp or ia_solve,   *)
(* the second eu_ivp; each call owns its arguments and locals, and the     *)
(* scheduler interleaves their loop iterations in every order.             *)
(***************************************************************************)
ConcSolvers == {"eu_ivp", "ia_solve"}
ConcHVals == {5, 16}
ConcY0Vals == {4, 16}

\* An iteration that evaluates the derivative at the other call's x.
eu_step_shared(ode, xv, yv, hv) == FAdd(yv, FMul(hv, eval(ode, x, yv)))

\* euler.rs: let slope = ode.eval(x, y); y += h * slope
eu_step(ode, xv, yv, hv) == FAdd(yv, FMul(hv, eval(ode, xv, yv)))

\* One loop iteration of the second thread's eu_ivp.
eu_ivp_t2 ==
  /\ t2.pc = "loop"
  /\ loop_cond(t2.x, t2.x_target)
  /\ t2' = [t2 EXCEPT !.y = eu_step(t2.ode, t2.x, t2.y, t2.h),
                      !.x = FAdd(t2.x, t2.h),
                      !.steps = Bump(t2.steps),
                      !.between = t2.between
                                    \/ (pc = "loop" /\ steps >= 1
                                        /\ loop_cond(x, arg.x_target))]
  /\ UNCHANGED <<arg, pc, x, y, h, i, steps, tick, last, qs>>

\* The second thread's eu_ivp returns y.
Return_t2 ==
  /\ t2.pc = "loop"
  /\ ~loop_cond(t2.x, t2.x_target)
  /\ t2' = [t2 EXCEPT !.pc = "done"]
  /\ UNCHANGED <<arg, pc, x, y, h, i, steps, tick, last, qs>>

ConcInit ==
  /\ arg \in { c \in ScalarCalls \cup VectorCalls :
                 /\ c.m \in ConcSolvers
                 /\ c.h \in ConcHVals
                 /\ c.x0 < c.x_target
                 /\ c.m \in Vector => c.ode.len = Len(c.y0) }
  /\ pc = "call"
  /\ x = arg.x0
  /\ y = arg.y0
  /\ h = arg.h
  /\ i = 0
  /\ steps = 0
  /\ tick = FALSE
  /\ last = <<>>
  /\ qs = [pos |-> "top", x_ |-> 0, xs |-> 0, q |-> 0, cnt |-> 0, res |-> <<0>>]
  /\ t2 \in { T2Call(ode, 0, y0, h0, 18) :
                ode \in Odes, y0 \in ConcY0Vals, h0 \in ConcHVals }
ConcNext ==
  \/ Enter \/ eu_ivp \/ ia_solve \/ Return
  \/ eu_ivp_t2 \/ Return_t2
ConcSpec == ConcInit /\ [][ConcNext]_vars

\* ivp_qss1 alone; its loops are sequential code as well.
Qss1Init == Init /\ arg.m \in Trajectory
Qss1Next ==
  \/ Enter
  \/ ivp_qss1 \/ ivp_qss1_wait \/ ivp_qss1_count \/ ivp_qss1_inner
  \/ ivp_qss1_inner_wait \/ ivp_qss1_inner_done \/ ivp_qss1_push
  \/ Return
Qss1Spec == Qss1Init /\ [][Qss1Next]_vars
FairQss1Spec == Qss1Spec /\ WF_vars(Qss1Next)

(***************************************************************************)
(* Properties                                                              *)
(***************************************************************************)
Called == pc # "call"
Returned == pc = "done"
\* steps is exact while below the counting bound
Counted == steps < MaxSteps

C2Set == {"eu_ivp", "he_ivp", "rk2_ivp", "rk4_ivp"}
C3Set == {"eu_ivp", "rk2_ivp", "rk4_ivp"}
C5Set == {"eu_ivp", "he_ivp", "rk2_ivp", "rk4_ivp", "eu_solve", "rk_solve"}

\* C1: every scalar fixed-step integrator called with h > 0 and
\* x0 < x_target eventually reaches x >= x_target and returns.
C1_FixedStepTerminates ==
  (arg.m \in ScalarFixed /\ arg.h > 0 /\ arg.x0 < arg.x_target) ~> Returned

\* The smallest k with x0 + k*h >= x_target, in exact arithmetic (h > 0).
MinSteps(x0, hv, x_target) ==
  IF x_target <= x0 THEN 0 ELSE (x_target - x0 + hv - 1) \div hv

\* C2: when eu_ivp, he_ivp, rk2_ivp or rk4_ivp returns after at least one
\* step with h > 0, x_target <= x <= x_target + h, and the number of steps is
\* the smallest k with x0 + k*h >= x_target.
C2_OvershootAtMostH ==
  (Returned /\ arg.m \in C2Set /\ arg.h > 0 /\ steps >= 1 /\ Counted)
    => /\ arg.x_target <= x
       /\ x - arg.x_target <= arg.h
       /\ steps = MinSteps(arg.x0, arg.h, arg.x_target)

\* C3: when eu_ivp, rk2_ivp or rk4_ivp returns from a call with
\* x0 < x_target and h > 0, x equals x_target.
C3_ReturnsAtTarget ==
  (Returned /\ arg.m \in C3Set /\ arg.x0 < arg.x_target /\ arg.h > 0)
    => x = arg.x_target

\* The step size of the call is zero and the loop has work to do.
ZeroStep ==
  IF arg.m \in VectorFor THEN arg.n > 0 /\ arg.b = arg.a
  ELSE arg.h = 0 /\ arg.x0 < arg.x_target

\* C4: a call with h == 0 fails at once with ZeroStepSize: it completes no
\* loop iteration (it does not loop) and does not return a value.
C4_ZeroStepFails ==
  ZeroStep => (steps = 0 /\ ~Returned)

WrongDirection ==
  \/ arg.h > 0 /\ arg.x0 > arg.x_target
  \/ arg.h < 0 /\ arg.x0 < arg.x_target

\* C5 as stated: with the sign of h inconsistent with the direction from x0
\* to x_target, positive h with x0 > x_target included, the integrators
\* never return.
C5_WrongDirectionNeverReturns ==
  (arg.m \in C5Set /\ WrongDirection) => ~Returned

\* C5 as amended: with h < 0 and x0 < x_target the integrators never
\* return; with h > 0 and x0 > x_target the loop test fails at once, so no
\* step is taken and y stays y0.
C5_NegativeStepNeverReturns ==
  arg.m \in C5Set =>
    /\ (arg.h < 0 /\ arg.x0 < arg.x_target) => ~Returned
    /\ (arg.h > 0 /\ arg.x0 > arg.x_target) =>
         /\ steps = 0 /\ y = arg.y0 /\ pc # "panic"
         /\ ~FLt(x, arg.x_target)

C5_Witness ==
  arg.m \in C5Set /\ arg.h < 0 /\ arg.x0 < arg.x_target /\ steps >= 3
    /\ pc = "loop"

\* The derivative returns a sequence as long as the state.
WellDimensioned == arg.ode.len = Len(arg.y0)

\* C6: in every vector integrator a derivative whose length differs from the
\* state's makes the call fail fast: no iteration completes, and the state
\* never continues truncated, padded or with a changed length.
C6_MismatchFailsFast ==
  (arg.m \in Vector /\ ~WellDimensioned)
    => (steps = 0 /\ Len(y) = Len(arg.y0))

\* C7: with a derivative that always returns d values, the state of every
\* vector integrator has length d after every step, no step panics, and the
\* returned vector is as long as the initial one.
C7_DimensionPreserved ==
  (arg.m \in Vector /\ WellDimensioned)
    => (Len(y) = Len(arg.y0) /\ pc # "panic")

C7_Witness ==
  arg.m \in Vector /\ WellDimensioned /\ Len(arg.y0) >= 2 /\ Returned
    /\ steps >= 2

\* C8: for ve_solve, Yoshida solve and QSS-sys solve with n >= 1, every
\* iteration advances x by exactly h = (b - a)/n, exactly n iterations run,
\* and on return x = x0 + (b - a).
C8_NoOvershoot ==
  (arg.m \in VectorFor /\ arg.n >= 1 /\ WellDimensioned)
    => /\ h = FDiv(FSub(arg.b, arg.a), Lit(arg.n)) \/ ~Called
       /\ steps >= 1 => x = FAdd(last.x, h)
       /\ Returned => (steps = arg.n /\ x = FAdd(arg.x0, FSub(arg.b, arg.a)))

RKFStepped == arg.m = "rkf_ivp" /\ steps >= 1

\* C9: when the local error of an RKF step is exactly zero, the new step
\* size is finite (capped, or the previous h), so that the following step
\* uses a finite step size.
C9_ZeroErrorGuarded ==
  (RKFStepped /\ arg.h > 0 /\ steps = 1 /\ last.info.error = 0)
    => (IsFinite(last.info.h_new) /\ IsFinite(h))

\* The two combinations of the Fehlberg pair, from the stages k of one step.
Order4(yv, k) ==
  FAdd(FAdd(FAdd(FAdd(yv, FMul(Rat(25, 216), k[1])), FMul(Rat(1408, 2565), k[3])),
            FMul(Rat(2197, 4104), k[4])), FMul(Rat(-1, 5), k[5]))
Order5(yv, k) ==
  FAdd(FAdd(FAdd(FAdd(FAdd(yv, FMul(Rat(16, 135), k[1])),
                      FMul(Rat(6656, 12825), k[3])),
                 FMul(Rat(28561, 56430), k[4])), FMul(Rat(-9, 50), k[5])),
       FMul(Rat(2, 55), k[6]))

\* C10 as stated: the y accepted by each RKF step is the order-5 estimate.
C10_AcceptsOrder5 ==
  RKFStepped => y = Order5(last.y, last.info.k)

\* C10 as amended: the y accepted by each RKF step is the order-4 estimate
\* y + 25/216 k1 + 1408/2565 k3 + 2197/4104 k4 - 1/5 k5, whatever the error;
\* the order-5 combination enters the error estimate only.
C10_AcceptsOrder4 ==
  RKFStepped =>
    /\ y = Order4(last.y, last.info.k)
    /\ last.info.error
         = FAbs(FSub(Order4(last.y, last.info.k), Order5(last.y, last.info.k)))

C10_Witness ==
  RKFStepped /\ IsFinite(last.info.error) /\ last.info.error > 0
    /\ IsFinite(y)

\* dy/dx = c and dy/dx = x, the two right-hand sides of the exactness claim.
ConstantOde == arg.ode.b = 0 /\ arg.ode.c = 0
IdentityOde == arg.ode.a = 0 /\ arg.ode.b = One /\ arg.ode.c = 0

\* 2 * One times the exact solution at x_target, in units: y0 + c*(x_target -
\* x0) for dy/dx = c, y0 + (x_target^2 - x0^2)/2 for dy/dx = x.
ExactScaled ==
  IF ConstantOde
  THEN 2 * One * arg.y0 + 2 * arg.ode.a * (arg.x_target - arg.x0)
  ELSE 2 * One * arg.y0 + (arg.x_target * arg.x_target - arg.x0 * arg.x0)

\* The spacing of the format at the magnitude n/d units.
Ulp(n, d) == Pow2(BinadeOf(Abs(n), d, 0))

\* C11: when rk4_ivp returns from a call with h > 0 and x0 < x_target on
\* dy/dx = c or dy/dx = x, the result is the exact solution at x_target, up
\* to floating-point epsilon: one unit in the last place of the exact value
\* for the start and for each step taken, whether or not h divides
\* x_target - x0.
C11_Rk4ExactOnPolynomials ==
  (Returned /\ arg.m = "rk4_ivp" /\ arg.h > 0 /\ arg.x0 < arg.x_target
     /\ Counted /\ (ConstantOde \/ IdentityOde))
    => /\ IsFinite(y)
       /\ Abs(2 * One * y - ExactScaled)
            <= (steps + 1) * Ulp(ExactScaled, 2 * One) * 2 * One

\* The energy x^2 + v^2 of an oscillator state, in units of 2^(-2*Frac).
Energy(yv) == yv[1] * yv[1] + yv[2] * yv[2]

\* The state is finite and its energy deviates from e0 by less than 1%.
InBand(yv, e0) ==
  /\ \A j \in 1..Len(yv) : IsFinite(yv[j])
  /\ 100 * Abs(Energy(yv) - e0) < e0

OnOscillator == arg.m \in Vector /\ arg.ode.osc

\* C12: for lf_solve, fr_solve, Yoshida solve and ve_solve on the harmonic
\* oscillator dx/dt = v, dv/dt = -x, the energy x^2 + v^2 is within 1% of its
\* initial value after every step.
C12_EnergyBounded ==
  (OnOscillator /\ arg.m \in Symplectic /\ steps >= 1 /\ pc # "panic")
    => InBand(y, Energy(arg.y0))

QSS23Stepped == arg.m \in {"ivp_qss2", "ivp_qss3"} /\ steps >= 1

\* The trial value of one step from (xv, yv): the order-2 update
\* y + h*(k1 + k2)/2 for ivp_qss2, the order-3 update y + h*(k1 + 4*k2 + k3)/6
\* for ivp_qss3.
Trial2(ode, xv, yv, hv) ==
  FAdd(yv, FDiv(FMul(hv, FAdd(eval(ode, xv, yv),
                              eval(ode, FAdd(xv, hv),
                                   FAdd(yv, FMul(hv, eval(ode, xv, yv)))))),
                Lit(2)))
Stage2(ode, xv, yv, hv) ==
  eval(ode, FAdd(xv, FDiv(hv, Lit(2))),
       FAdd(yv, FMul(FDiv(hv, Lit(2)), eval(ode, xv, yv))))
Stage3(ode, xv, yv, hv) ==
  eval(ode, FAdd(xv, hv),
       FAdd(yv, FMul(hv, FAdd(FNeg(eval(ode, xv, yv)),
                              FMul(Lit(2), Stage2(ode, xv, yv, hv))))))
Trial3(ode, xv, yv, hv) ==
  FAdd(yv, FDiv(FMul(hv, FAdd(FAdd(eval(ode, xv, yv),
                                   FMul(Lit(4), Stage2(ode, xv, yv, hv))),
                              Stage3(ode, xv, yv, hv))),
                Lit(6)))
TrialOfLast ==
  IF arg.m = "ivp_qss2" THEN Trial2(arg.ode, last.x, last.y, last.h)
  ELSE Trial3(arg.ode, last.x, last.y, last.h)

\* C13: after every step of ivp_qss2 and ivp_qss3, y is the trial value of
\* the step if |trial - y| >= delta_q held for the y before the step, and is
\* that previous y otherwise; x has advanced by h either way.
C13_CommitIffThreshold ==
  QSS23Stepped =>
    /\ y = IF FGe(FAbs(FSub(TrialOfLast, last.y)), arg.delta_q)
           THEN TrialOfLast ELSE last.y
    /\ x = FAdd(last.x, last.h)
    /\ h = last.h

C13_Witness ==
  QSS23Stepped /\ arg.delta_q > 0 /\ y # last.y /\ IsFinite(y)

\* An outer iteration of ivp_qss1, or an iteration of qss1_ivp, has completed.
QSS1Stepped ==
  /\ arg.m \in {"ivp_qss1", "qss1_ivp"}
  /\ steps >= 1
  /\ qs.pos = "top"

\* The order-1 trial value of the step from (xv, yv).
Trial1(ode, xv, yv, hv) == FAdd(yv, FMul(hv, eval(ode, xv, yv)))

\* C14: a step of ivp_qss1 or qss1_ivp leaves in y the order-1 trial value
\* y + h*f(x, y) of the step when |trial - y| >= delta_q, and the previous y
\* otherwise (qss1_ivp takes no delta_q: its threshold is 0).
C14_Qss1QuantizedEuler ==
  (QSS1Stepped /\ IsFinite(Trial1(arg.ode, last.x, last.y, last.h)))
    => y = IF FGe(FAbs(FSub(Trial1(arg.ode, last.x, last.y, last.h), last.y)),
                  arg.delta_q)
           THEN Trial1(arg.ode, last.x, last.y, last.h) ELSE last.y

\* C15: the sequence ivp_qss1 builds and returns starts with y0, holds one
\* further element per completed outer step, and ends with the current y
\* after each of them.
C15_FullTrajectory ==
  (arg.m = "ivp_qss1" /\ Counted /\ steps >= 1 /\ qs.pos = "top")
    => /\ qs.res[1] = arg.y0
       /\ Len(qs.res) = steps + 1
       /\ qs.res[Len(qs.res)] = y

\* C16: every call of ivp_qss1 with h > 0, x0 < x_target and delta_q > 0
\* returns.
C16_Qss1Terminates ==
  (arg.m = "ivp_qss1" /\ arg.h > 0 /\ arg.x0 < arg.x_target /\ arg.delta_q > 0)
    ~> Returned

\* What eu_ivp returns when it runs alone: the loop of euler.rs from (xv, yv),
\* at most fuel iterations.
RECURSIVE eu_alone(_, _, _, _, _, _)
eu_alone(ode, xv, yv, hv, x_target, fuel) ==
  IF fuel = 0 \/ ~FLt(xv, x_target) THEN yv
  ELSE eu_alone(ode, FAdd(xv, hv), FAdd(yv, FMul(hv, eval(ode, xv, yv))), hv,
                x_target, fuel - 1)

\* What ia_solve returns when it runs alone.
RECURSIVE ia_alone(_, _, _, _, _, _)
ia_alone(ode, xv, yv, hv, x_target, fuel) ==
  IF fuel = 0 \/ ~FLt(xv, x_target) THEN yv
  ELSE ia_alone(ode, FAdd(xv, hv),
                add_vec(yv, vec_scalar_mul(
                              evalsys(ode, xv, add_vec(yv, Fill(hv, Len(yv)))),
                              hv)),
                hv, x_target, fuel - 1)

\* C17: under every interleaving of the two threads' iterations, each call
\* returns the value it returns when it runs alone.
C17_NoInterference ==
  /\ (Returned /\ arg.m = "eu_ivp" /\ t2.pc # "idle")
       => y = eu_alone(arg.ode, arg.x0, arg.y0, arg.h, arg.x_target, MaxSteps)
  /\ (Returned /\ arg.m = "ia_solve" /\ t2.pc # "idle")
       => y = ia_alone(arg.ode, arg.x0, arg.y0, arg.h, arg.x_target, MaxSteps)
  /\ t2.pc = "done"
       => t2.y = eu_alone(t2.ode, t2.x0, t2.y0, t2.h, t2.x_target, MaxSteps)

\* Both calls have returned after at least two iterations each, and the
\* second thread ran an iteration between two iterations of the first.
C17_Witness ==
  /\ Returned /\ t2.pc = "done"
  /\ steps >= 2 /\ t2.steps >= 2
  /\ t2.between
  /\ t2.y # t2.y0 /\ y # arg.y0

\* C18: every iteration of rkf_ivp commits the y_next of its step, computed
\* with the h the iteration started with, and advances x by that same h; the
\* h_new of the step only becomes the h of the iteration that follows.
C18_NoRejection ==
  RKFStepped =>
    /\ y = last.info.y_next
    /\ last.info.k[1] = FMul(last.h, eval(arg.ode, last.x, last.y))
    /\ x = FAdd(last.x, last.h)
    /\ h = last.info.h_new

C18_Witness ==
  /\ RKFStepped /\ steps >= 2
  /\ last.h # arg.h /\ h # last.h
  /\ IsFinite(x) /\ IsFinite(y)

\* The first iteration of a call with h > 0 and x0 < x_target has completed
\* with a nonzero error estimate.
FirstNonzeroError ==
  /\ RKFStepped /\ steps = 1
  /\ arg.h > 0 /\ IsFinite(arg.h) /\ arg.x0 < arg.x_target
  /\ IsFinite(last.info.error) /\ last.info.error > 0

\* C19, the progress that makes rkf_ivp reach x_target: a step with a nonzero
\* error estimate leaves the adapted step size strictly positive and x
\* strictly larger than before.
C19_StrictProgress ==
  FirstNonzeroError => (FLt(0, h) /\ FLt(last.x, x))

BSStepped == arg.m = "bs_ivp" /\ steps >= 1

\* The value a Bogacki-Shampine step accepts, from its four stages.
BSAccepted(yv, k) ==
  FAdd(FAdd(FAdd(FAdd(yv, FMul(Rat(7, 24), k[1])), FMul(Rat(1, 4), k[2])),
            FMul(Rat(1, 3), k[3])), FMul(Rat(1, 8), k[4]))

ExactAdd(a, b) == IsFinite(a) /\ IsFinite(b) /\ FAdd(a, b) = a + b
ExactMul(a, b) == IsFinite(a) /\ IsFinite(b) /\ FMul(a, b) * One = a * b
ExactDiv(a, b) ==
  IsFinite(a) /\ IsFinite(b) /\ b # 0 /\ FDiv(a, b) * b = a * One
ExactEval(ode, xv, yv) ==
  /\ ExactMul(ode.b, xv) /\ ExactMul(ode.c, yv)
  /\ ExactAdd(ode.a, FMul(ode.b, xv))
  /\ ExactAdd(FAdd(ode.a, FMul(ode.b, xv)), FMul(ode.c, yv))

\* Every operation of one he_ivp iteration from (xv, yv) is exact.
he_exact(ode, xv, yv, hv) ==
  \A f0 \in {eval(ode, xv, yv)} :
  \A y_ \in {FAdd(yv, FMul(hv, f0))} :
  \A f1 \in {eval(ode, FAdd(xv, hv), y_)} :
    /\ ExactEval(ode, xv, yv) /\ ExactMul(hv, f0) /\ ExactAdd(yv, FMul(hv, f0))
    /\ ExactAdd(xv, hv) /\ ExactEval(ode, FAdd(xv, hv), y_)
    /\ ExactAdd(f1, f0) /\ ExactMul(FAdd(f1, f0), hv)
    /\ ExactDiv(FMul(FAdd(f1, f0), hv), Lit(2))
    /\ ExactAdd(yv, FDiv(FMul(FAdd(f1, f0), hv), Lit(2)))

\* Every operation of one rk2_ivp iteration from (xv, yv) is exact.
rk2_exact(ode, xv, yv, hv) ==
  \A k1 \in {FMul(hv, eval(ode, xv, yv))} :
  \A f1 \in {eval(ode, FAdd(xv, hv), FAdd(yv, k1))} :
  \A k2 \in {FMul(hv, f1)} :
    /\ ExactEval(ode, xv, yv) /\ ExactMul(hv, eval(ode, xv, yv))
    /\ ExactAdd(yv, k1) /\ ExactAdd(xv, hv)
    /\ ExactEval(ode, FAdd(xv, hv), FAdd(yv, k1)) /\ ExactMul(hv, f1)
    /\ ExactAdd(k1, k2) /\ ExactMul(Rat(1, 2), FAdd(k1, k2))
    /\ ExactAdd(yv, FMul(Rat(1, 2), FAdd(k1, k2)))

HeunOrRk2Stepped == arg.m \in {"he_ivp", "rk2_ivp"} /\ steps >= 1
ExactStep ==
  /\ he_exact(arg.ode, last.x, last.y, last.h)
  /\ rk2_exact(arg.ode, last.x, last.y, last.h)

\* C21: rk2_ivp and he_ivp run side by side stay equal: after every step of
\* either one whose arithmetic is exact (no operation of either method rounds),
\* the new y is the y both methods compute from the state before the step,
\* and x has advanced by h; the step size never changes.
C21_Rk2EqualsHeun ==
  (HeunOrRk2Stepped /\ ExactStep) =>
    /\ y = he_step(arg.ode, last.x, last.y, last.h)
    /\ y = rk2_step(arg.ode, last.x, last.y, last.h)
    /\ x = last.x + last.h
    /\ h = arg.h /\ last.h = arg.h

C21_Witness ==
  /\ HeunOrRk2Stepped /\ ExactStep /\ arg.m = "rk2_ivp"
  /\ arg.ode.c # 0 /\ y # last.y /\ steps >= 2 /\ Returned

AdamsStepped == arg.m \in {"ab_ivp", "am_ivp"} /\ steps >= 1

\* C22: ab_ivp and am_ivp keep no history: after every step the two
\* derivative values used are f0 = f(x, y) and f1 = f(x + h, y + h*f0) taken
\* at the state before the step, the new y is y + h(1.5 f1 - 0.5 f0) for
\* ab_ivp and y + h(5 f1 + 8 f0)/12 for am_ivp, x has advanced by h, and h is
\* the h of the call.
C22_NoHistory ==
  AdamsStepped =>
    /\ last.info.f0 = eval(arg.ode, last.x, last.y)
    /\ last.info.f1 = eval(arg.ode, FAdd(last.x, last.h),
                           FAdd(last.y, FMul(last.h, last.info.f0)))
    /\ arg.m = "ab_ivp" =>
         y = FAdd(last.y, FMul(last.h,
                    FSub(FMul(Rat(3, 2), last.info.f1),
                         FMul(Rat(1, 2), last.info.f0))))
    /\ arg.m = "am_ivp" =>
         y = FAdd(last.y, FDiv(FMul(last.h,
                    FAdd(FMul(Lit(5), last.info.f1),
                         FMul(Lit(8), last.info.f0))), Lit(12)))
    /\ x = FAdd(last.x, last.h)
    /\ h = arg.h /\ last.h = arg.h

C22_Witness ==
  /\ AdamsStepped /\ steps >= 2 /\ arg.m = "ab_ivp"
  /\ last.info.f0 # last.info.f1 /\ IsFinite(y) /\ y # last.y
  /\ y # FAdd(last.y, FMul(last.h, last.info.f0))

LFStepped == arg.m = "lf_solve" /\ steps >= 1

\* C23: every lf_solve iteration evaluates the derivative twice, first at
\* (x, y) and then at (x + h, y after the first half-update); each
\* evaluation adds its derivative times h, halved, to y, and x advances by h
\* once.
C23_TwoHalfSteps ==
  LFStepped =>
    /\ last.info.dy = evalsys(arg.ode, last.x, last.y)
    /\ last.info.next_dy = evalsys(arg.ode, FAdd(last.x, last.h), last.info.y1)
    /\ Len(last.info.y1) = Len(last.y) /\ Len(y) = Len(last.y)
    /\ \A j \in 1..Len(last.y) :
         /\ j <= Len(last.info.dy) =>
              last.info.y1[j]
                = FAdd(last.y[j],
                       FDiv(FMul(last.info.dy[j], last.h), Lit(2)))
         /\ j <= Len(last.info.next_dy) =>
              y[j] = FAdd(last.info.y1[j],
                          FDiv(FMul(last.info.next_dy[j], last.h), Lit(2)))
    /\ x = FAdd(last.x, last.h)
    /\ h = arg.h /\ last.h = arg.h

C23_Witness ==
  /\ LFStepped /\ steps >= 2 /\ Returned
  /\ last.info.dy # last.info.next_dy
  /\ \E j \in 1..Len(y) : IsFinite(y[j]) /\ y[j] # last.info.y1[j]
                           /\ last.info.y1[j] # last.y[j]

VEStepped == arg.m = "ve_solve" /\ steps >= 1

\* C24: every ve_solve iteration makes three sub-steps, the second evaluated
\* at the midpoint x + h/2, and the increment each sub-step adds to y is the
\* derivative evaluated in that sub-step times h/2, h and h/2 respectively.
C24_KickDriftKick ==
  VEStepped =>
    /\ last.info.dy[1] = evalsys(arg.ode, last.x, last.y)
    /\ last.info.dy[2]
         = evalsys(arg.ode, FAdd(last.x, FDiv(last.h, Lit(2))),
                   last.info.y_[1])
    /\ \A j \in 1..Len(last.y) :
         /\ j <= Len(last.info.dy[1]) =>
              last.info.y_[1][j]
                = FAdd(last.y[j],
                       FMul(last.info.dy[1][j], FDiv(last.h, Lit(2))))
         /\ j <= Len(last.info.dy[2]) =>
              last.info.y_[2][j]
                = FAdd(last.info.y_[1][j], FMul(last.info.dy[2][j], last.h))
         /\ j <= Len(last.info.dy[3]) =>
              y[j] = FAdd(last.info.y_[2][j],
                          FMul(last.info.dy[3][j], FDiv(last.h, Lit(2))))

IAStepped == arg.m = "ia_solve" /\ steps >= 1

\* C25: every ia_solve step evaluates the derivative twice (two stages), the
\* second at an intermediate state computed from the first, and the new y is
\* y plus h times the two stages combined with the fixed weights 1/4 and 3/4
\* of the two-stage Radau IA quadrature.
C25_TwoStageRadau ==
  IAStepped =>
    /\ Len(last.info.k) = 2
    /\ \A j \in 1..Min(Len(y), Len(last.info.k[1])) :
         y[j] = FAdd(last.y[j],
                     FMul(last.h, FAdd(FMul(Rat(1, 4), last.info.k[1][j]),
                                       FMul(Rat(3, 4), last.info.k[2][j]))))

CompositionStepped == arg.m \in {"fr_solve", "yo_solve"} /\ steps >= 1

\* y after the first k assignments `y = add_vec(&y, &vec_scalar_mul(by, scale))`
\* of one iteration.
RECURSIVE Composed(_, _, _)
Composed(yv, upd, k) ==
  IF k = 0 THEN yv
  ELSE add_vec(Composed(yv, upd, k - 1),
               vec_scalar_mul(upd[k].by, upd[k].scale))

\* C26: fr_solve and Yoshida4thSysSolver::solve are composition methods:
\* every step makes three or more updates of y, each one scaled by one of the
\* coefficients c1, c2, d1, d2 computed from the cube root of 2, and the new y
\* is the result of these updates.
C26_Composition ==
  CompositionStepped =>
    /\ Len(last.info.upd) >= 3
    /\ \A u \in 1..Len(last.info.upd) :
         last.info.upd[u].scale \in {yo_c1, yo_c2, yo_d1, yo_d2}
    /\ y = Composed(last.y, last.info.upd, Len(last.info.upd))

WhileLoopIntegrators ==
  {"eu_ivp", "he_ivp", "rk2_ivp", "rk4_ivp", "ab_ivp", "am_ivp", "bs_ivp",
   "rkf_ivp", "ivp_qss2", "ivp_qss3",
   "eu_solve", "rk_solve", "fr_solve", "lf_solve", "ia_solve"}
AtOrPastTarget ==
  arg.m \in WhileLoopIntegrators /\ FGe(arg.x0, arg.x_target)

\* C27: a while-loop integrator called with x0 >= x_target, whatever h is,
\* takes no step: the loop test is false on entry, no iteration (and so no
\* evaluation of the derivative) ever runs, the call does not panic, and it
\* returns y0 unchanged.
C27_NoStepAtOrPastTarget ==
  AtOrPastTarget =>
    /\ steps = 0 /\ last = <<>>
    /\ x = arg.x0 /\ y = arg.y0
    /\ pc # "panic"
    /\ pc = "loop" => ~loop_cond(x, arg.x_target)

C27_Witness ==
  /\ AtOrPastTarget /\ Returned /\ y = arg.y0
  /\ arg.m = "rkf_ivp" /\ arg.h < 0 /\ arg.x0 > arg.x_target
  /\ eval(arg.ode, arg.x0, arg.y0) # 0

FixedStepIntegrators ==
  {"eu_ivp", "he_ivp", "rk2_ivp", "rk4_ivp", "ab_ivp", "am_ivp", "bs_ivp",
   "eu_solve", "rk_solve", "fr_solve", "lf_solve", "ve_solve", "qss_solve"}

\* A completed step of a fixed-step integrator on dy/dx = c (c = ode.a), from
\* a finite state, the derivative having as many components as the state.
ConstantStepped ==
  /\ arg.m \in FixedStepIntegrators /\ steps >= 1 /\ pc # "panic"
  /\ ConstantOde /\ IsFinite(last.h)
  /\ IF arg.m \in Vector
     THEN /\ ~arg.ode.osc /\ WellDimensioned
          /\ \A j \in 1..Len(last.y) : IsFinite(last.y[j])
     ELSE IsFinite(last.y)

\* v is the exact value n/One, up to two units in the last place.
NearExact(v, n) ==
  IsFinite(v) /\ Abs(v * One - n) <= 2 * Ulp(n, One) * One

\* C28: on a constant derivative dy/dx = c every step of size h of a
\* fixed-step integrator adds c*h to y (to every component, for the vector
\* solvers), up to the rounding of the f64 operations.
C28_ConstantConsistency ==
  ConstantStepped =>
    IF arg.m \in Vector
    THEN \A j \in 1..Len(y) :
           NearExact(y[j], last.y[j] * One + arg.ode.a * last.h)
    ELSE NearExact(y, last.y * One + arg.ode.a * last.h)

\* f does not depend on x.
Autonomous == arg.ode.b = 0

\* The last step of ivp_qss2 or ivp_qss3 was held: its trial change was below
\* delta_q and y was left as it was.
Held ==
  /\ QSS23Stepped
  /\ ~FGe(FAbs(FSub(TrialOfLast, last.y)), arg.delta_q)
  /\ y = last.y

\* C29: for an autonomous derivative, once ivp_qss2 or ivp_qss3 has held a
\* step, every later step of the run is held too: y stays frozen at that
\* value while x keeps advancing by h, until the call returns.
C29_HoldIsPermanent ==
  [][(Held /\ Autonomous) =>
       /\ Held' /\ y' = y
       /\ (x' # x => x' = FAdd(x, arg.h))]_vars

C29_Witness ==
  /\ Held /\ Autonomous /\ Returned /\ steps >= 3
  /\ arg.delta_q > 0 /\ y = arg.y0
  /\ IsFinite(TrialOfLast) /\ TrialOfLast # last.y
  /\ x # last.x

QSSSysStepped == arg.m = "qss_solve" /\ steps >= 1

\* C30: in QSSSysSolver::solve with delta_q > 0 the gated update
\* `y[i] += h * k1[i]` is never reached: in every pass no component passes
\* the threshold test, no index of k1 is out of range for it, and the y the
\* pass leaves is the y after the seventh sub-stage, which is computed
\* without delta_q; so the returned vector is the same for every positive
\* delta_q.
C30_GateUnreachable ==
  (arg.m = "qss_solve" /\ FLt(0, arg.delta_q)) =>
    /\ steps >= 1 =>
         /\ last.info.gated = {}
         /\ y = last.info.y_7
    /\ pc = "panic" => Overrun(evalsys(arg.ode, x, y), y)

C30_Witness ==
  /\ QSSSysStepped /\ FLt(0, arg.delta_q) /\ Returned
  /\ WellDimensioned /\ arg.n >= 2
  /\ \E j \in 1..Len(y) :
       /\ IsFinite(y[j]) /\ y[j] # last.y[j]
       /\ FAdd(y[j], FMul(last.h, last.info.k1[j])) # y[j]

====
